---- MODULE Spec2Model ----
(***************************************************************************)
(* Course-progress gating of the SkillCert backend:                        *)
(* CourseProgressService.updateProgress and its quiz-requirement check,    *)
(* run by request handlers over the shared quiz, attempt and progress      *)
(* stores.  Every await of the handler is one step of the model, so calls  *)
(* of different requests interleave between their store accesses.          *)
(* QuizValidationService.validateQuiz, a pure check of a quiz-creation     *)
(* request, is applied to requests drawn from bounded sets.                *)
(***************************************************************************)
EXTENDS Integers, Sequences, FiniteSets, TLC

\* ---------------------------------------------------------------- bounds
MaxCalls == 2       \* updateProgress calls started (SpecSeq, Spec)
MaxQuizzes == 2     \* quizzes in the quiz store (SpecGate)
MaxAttempts == 2    \* attempts in the attempt store (SpecGate)
MaxLessonQuizzes == 1   \* quizzes in the quiz store (SpecSeq, Spec)
MaxAnswers == 3     \* answers of a question (SpecQuestion)
MaxQuestions == 2   \* questions of a quiz (SpecQuiz)
MaxRows == 40       \* CourseProgress rows of an enrollment (SpecRate)

\* ------------------------------------------------------------ fixed data
Procs == {1, 2}                       \* request handlers that may overlap

EnrollmentUser == [e \in {"e1", "e2"} |-> IF e = "e1" THEN "u1" ELSE "u2"]
EnrollmentIds == DOMAIN EnrollmentUser
UserIds == {"u1", "u2"}
LessonIds == {"l1", "l2"}
EnrollmentInputs == EnrollmentIds \cup {"e0"}     \* "e0": no such enrollment
LessonInputs == LessonIds \cup {"l0"}             \* "l0": no such lesson

COMPLETED == "COMPLETED"
ProgressStatus == {"NOT_STARTED", "IN_PROGRESS", COMPLETED}

QuizTitles == <<"Quiz A", "Quiz B", "Quiz C", "Quiz D">>

VARIABLES
    quizzes,     \* quiz store: sequence of [id, lesson_id, title]
    attempts,    \* attempt store, oldest first: [user_id, quiz_id, passed]
    rows,        \* progress store: rows[i] is the row with primary key i
    calls,       \* number of updateProgress calls started, where they are counted
    pc,          \* per handler: the await it is suspended at
    dto,         \* per handler: the request
    enrollment,  \* per handler: enrollment.user.id once resolved
    qlist,       \* per handler: the quizzes quizRepo.find returned
    qi,          \* per handler: position of the for-loop in qlist
    progress,    \* per handler: primary key of the loaded row, 0 for null
    result,      \* per handler: what the call returned or threw
    rows0,       \* history: the progress store when the call started
    consulted,   \* history: the attempt findOne returned for each quiz (0: null)
    lastOk,      \* history: per pair, the status of its last successful call
    first,       \* history: per handler, the result of the call before when
                 \* that call had the same request and no store changed since
    prev,        \* history: request and result of the call that returned last
    vquiz,       \* validateQuiz: the CreateQuizDto under validation
    vpc,         \* validateQuiz: "idle", "loop" (inside forEach) or "done"
    vindex,      \* validateQuiz: the forEach index (0-based)
    verror,      \* validateQuiz: the exception thrown, or ok
    vvisited,    \* history: the indexes validateQuestion was called with
    rpc,         \* getCompletionRate: "idle", "counted" (after total) or "done"
    renrollment, \* getCompletionRate: the enrollmentId argument
    rtotal,      \* getCompletionRate: const total
    rresult,     \* getCompletionRate: the response
    apc,         \* getAnalytics: "idle", "counted" (after totalProgress) or "done"
    atotal,      \* getAnalytics: const totalProgress
    aresult,     \* getAnalytics: the response
    cpresult,    \* getCourseProgress: the rows returned
    reviews,     \* review store: rows [userId, courseId]
    created,     \* history: pairs created successfully and not deleted since
    rv,          \* the review request served last and its response
    cats,        \* category store: rows [id, name, courses]
    catIds,      \* number of category ids issued
    catpc,       \* per category handler: the await it stands at
    catdto,      \* per category handler: the request
    catresult,   \* per category handler: the response
    cats0        \* history: the category store when the handler's call began

storeVars == <<quizzes, attempts, rows>>
callVars == <<calls, pc, dto, enrollment, qlist, qi, progress, result, rows0,
              consulted, first>>
validatorVars == <<vquiz, vpc, vindex, verror, vvisited>>
rateVars == <<rpc, renrollment, rtotal, rresult>>
progressVars == <<quizzes, attempts, rows, calls, pc, dto, enrollment, qlist, qi,
                  progress, result, rows0, consulted, lastOk, first, prev>>
analyticsVars == <<apc, atotal, aresult>>
\* What updateProgress, validateQuiz, getCompletionRate and getAnalytics
\* never touch, respectively.
reviewVars == <<reviews, created, rv>>
categoryVars == <<cats, catIds, catpc, catdto, catresult, cats0>>
otherVars == <<validatorVars, rateVars, analyticsVars, cpresult, reviewVars, categoryVars>>
nonValidatorVars == <<progressVars, rateVars, analyticsVars, cpresult, reviewVars, categoryVars>>
nonRateVars == <<progressVars, validatorVars, analyticsVars, cpresult, reviewVars, categoryVars>>
nonAnalyticsVars == <<progressVars, validatorVars, rateVars, cpresult, reviewVars, categoryVars>>
nonReadVars == <<progressVars, validatorVars, rateVars, analyticsVars, reviewVars, categoryVars>>
nonReviewVars == <<progressVars, validatorVars, rateVars, analyticsVars, cpresult, categoryVars>>
nonCategoryVars == <<progressVars, validatorVars, rateVars, analyticsVars, cpresult, reviewVars>>
vars == <<quizzes, attempts, rows, calls, pc, dto, enrollment, qlist, qi,
          progress, result, rows0, consulted, lastOk, first, prev,
          vquiz, vpc, vindex, verror, vvisited,
          rpc, renrollment, rtotal, rresult,
          apc, atotal, aresult, cpresult, reviews, created, rv,
          cats, catIds, catpc, catdto, catresult, cats0>>

NoDto == [enrollmentId |-> "", lessonId |-> "", status |-> ""]
NoResult == [kind |-> "none", val |-> ""]
NoPrev == [dto |-> NoDto, result |-> NoResult]

NoError == [kind |-> "none", pos |-> 0, rule |-> ""]
NoQuiz == [hasQuestions |-> FALSE, questions |-> << >>]

\* No validation is running.
ValidatorIdle ==
    /\ vquiz = NoQuiz
    /\ vpc = "idle"
    /\ vindex = 0
    /\ verror = NoError
    /\ vvisited = {}

NoRate == [enrollmentId |-> "", completed |-> 0, total |-> 0, completionRate |-> 0]

\* getCompletionRate is not running.
RateIdle ==
    /\ rpc = "idle"
    /\ renrollment = ""
    /\ rtotal = 0
    /\ rresult = NoRate

\* The double 0, and the response before getAnalytics has returned.
DoubleZero == [m |-> << >>, e |-> 0]
NoAnalytics == [totalProgress |-> 0, completed |-> 0, overallCompletionRate |-> DoubleZero]

\* getAnalytics is not running.
AnalyticsIdle ==
    /\ apc = "idle"
    /\ atotal = 0
    /\ aresult = NoAnalytics

\* The other services are not running.
\* No review request has been served and the review store is empty.
NoReview == [op |-> "", userId |-> "", courseId |-> "", kind |-> "none", live |-> FALSE]
ReviewsIdle == reviews = << >> /\ created = {} /\ rv = NoReview

\* No category exists and no category request is being served.
NoCategoryDto == [op |-> "", id |-> "", hasName |-> FALSE, name |-> << >>]
NoCategoryResult == [kind |-> "none"]
CategoriesIdle ==
    /\ cats = << >>
    /\ catIds = 0
    /\ catpc = [p \in Procs |-> "idle"]
    /\ catdto = [p \in Procs |-> NoCategoryDto]
    /\ catresult = [p \in Procs |-> NoCategoryResult]
    /\ cats0 = [p \in Procs |-> << >>]

ServicesIdle == AnalyticsIdle /\ cpresult = << >> /\ ReviewsIdle /\ CategoriesIdle

\* No quiz or attempt is recorded and no updateProgress request is being
\* served.
ProgressIdle ==
    /\ quizzes = << >>
    /\ attempts = << >>
    /\ calls = 0
    /\ pc = [p \in Procs |-> "idle"]
    /\ dto = [p \in Procs |-> NoDto]
    /\ enrollment = [p \in Procs |-> ""]
    /\ qlist = [p \in Procs |-> << >>]
    /\ qi = [p \in Procs |-> 0]
    /\ progress = [p \in Procs |-> 0]
    /\ result = [p \in Procs |-> NoResult]
    /\ rows0 = [p \in Procs |-> << >>]
    /\ consulted = [p \in Procs |-> << >>]
    /\ lastOk = [e \in EnrollmentIds, l \in LessonIds |-> ""]
    /\ first = [p \in Procs |-> NoResult]
    /\ prev = NoPrev

\* The stores are empty and no request is being served.
ProgressInit == ProgressIdle /\ rows = << >>

Init == ProgressInit /\ ValidatorIdle /\ RateIdle /\ ServicesIdle

\* ------------------------------------------------------ store operations
\* enrollmentRepo.findOne({where: {id}, relations: ['user']}): the user id of
\* the enrollment, "" for null.
EnrollmentFindOne(id) ==
    IF id \in EnrollmentIds THEN EnrollmentUser[id] ELSE ""

\* Fault variant: the missing-lesson check is lost.
LessonFindOneAlways(id) == TRUE

\* lessonRepo.findOne({where: {id}}): TRUE when a lesson was found.
LessonFindOne(id) == id \in LessonIds

\* Fault variant: the quiz query forgets the lesson.
QuizFindAnyLesson(lessonId) == quizzes

\* quizRepo.find({where: {lesson_id}}): the lesson's quizzes, in store order.
QuizFind(lessonId) ==
    SelectSeq(quizzes, LAMBDA q : q.lesson_id = lessonId)

\* Fault variant: the lookup forgets the user.
AttemptMatchesAnyUser(a, userId, quizId) ==
    a.quiz_id = quizId

\* The where clause of the attempt lookup.
AttemptMatches(a, userId, quizId) ==
    a.user_id = userId /\ a.quiz_id = quizId

\* Fault variant: the attempt lookup forgets the quiz.
AttemptFindOneAnyQuiz(userId, quizId) ==
    LET matching == {i \in 1..Len(attempts) : attempts[i].user_id = userId}
    IN  IF matching = {} THEN {0} ELSE matching

\* quizAttemptRepo.findOne({where: {user_id, quiz_id}}): no order is given,
\* so the store may return any matching attempt; {0} stands for null.
AttemptFindOne(userId, quizId) ==
    LET matching == {i \in 1..Len(attempts) :
                        AttemptMatches(attempts[i], userId, quizId)}
    IN  IF matching = {} THEN {0} ELSE matching

\* Fault variant: only a missing attempt is unmet.
UnmetOnlyWhenMissing(a) == a = 0

\* if (!attempt || !attempt.passed)
Unmet(a) == a = 0 \/ ~attempts[a].passed

\* Fault variant: the gate runs on every write.
NeedsQuizCheckAlways(status) == TRUE

\* if (dto.status === ProgressStatus.COMPLETED)
NeedsQuizCheck(status) == status = COMPLETED

\* progressRepo.findOne({where: {enrollment: {id}, lesson: {id}}}): the key
\* of a matching row, 0 for null.
ProgressFindOne(enrollmentId, lessonId) ==
    LET matching == {i \in 1..Len(rows) :
                        /\ rows[i].enrollment = enrollmentId
                        /\ rows[i].lesson = lessonId}
    IN  IF matching = {} THEN {0} ELSE matching

\* The CourseProgress table has no unique key over (enrollment, lesson): the
\* store accepts a second row for a pair.
PairIsUniqueKey == FALSE

\* An insert the store would refuse.
InsertRefused(loaded, d) ==
    /\ loaded = 0
    /\ PairIsUniqueKey
    /\ ProgressFindOne(d.enrollmentId, d.lessonId) # {0}

\* Fault variant: save always inserts.
SaveProgressInsert(loaded, d) ==
    Append(rows, [enrollment |-> d.enrollmentId, lesson |-> d.lessonId,
                  status |-> d.status])

\* Fault variant: a row that has reached COMPLETED is never written again.
SaveProgressKeepCompleted(loaded, d) ==
    IF loaded = 0
    THEN IF InsertRefused(loaded, d)
         THEN rows
         ELSE Append(rows, [enrollment |-> d.enrollmentId,
                            lesson |-> d.lessonId, status |-> d.status])
    ELSE IF rows[loaded].status = COMPLETED THEN rows
         ELSE [rows EXCEPT ![loaded].status = d.status]

\* progressRepo.save(progress): a created entity (no key) is inserted as a
\* new row, a loaded one is updated in place.
SaveProgress(loaded, d) ==
    IF loaded = 0
    THEN IF InsertRefused(loaded, d)
         THEN rows
         ELSE Append(rows, [enrollment |-> d.enrollmentId,
                            lesson |-> d.lessonId, status |-> d.status])
    ELSE [rows EXCEPT ![loaded].status = d.status]

\* throw new BadRequestException(`... You must pass the quiz "${quiz.title}" first.`)
QuizRequirementUnmet(quiz) ==
    [kind |-> "QuizRequirementUnmet", val |-> quiz.title]

\* ------------------------------------------------- updateProgress, by await
\* A request arrives and the handler resolves the enrollment.
Start(p, e, l, s) ==
    /\ pc[p] = "idle"
    /\ dto' = [dto EXCEPT ![p] = [enrollmentId |-> e, lessonId |-> l, status |-> s]]
    /\ rows0' = [rows0 EXCEPT ![p] = rows]
    /\ first' = [first EXCEPT ![p] =
                    IF prev.dto = [enrollmentId |-> e, lessonId |-> l, status |-> s]
                    THEN prev.result ELSE NoResult]
    /\ prev' = NoPrev
    /\ enrollment' = [enrollment EXCEPT ![p] = EnrollmentFindOne(e)]
    /\ IF EnrollmentFindOne(e) = ""
       THEN /\ result' = [result EXCEPT ![p] =
                            [kind |-> "EnrollmentNotFound", val |-> ""]]
            /\ pc' = [pc EXCEPT ![p] = "done"]
       ELSE /\ result' = result
            /\ pc' = [pc EXCEPT ![p] = "findLesson"]
    /\ UNCHANGED <<storeVars, qlist, qi, progress, consulted, lastOk>>

\* The handler resolves the lesson and decides whether the gate applies.
FindLesson(p) ==
    /\ pc[p] = "findLesson"
    /\ IF ~LessonFindOne(dto[p].lessonId)
       THEN /\ result' = [result EXCEPT ![p] =
                            [kind |-> "LessonNotFound", val |-> ""]]
            /\ pc' = [pc EXCEPT ![p] = "done"]
       ELSE /\ result' = result
            /\ pc' = [pc EXCEPT ![p] =
                        IF NeedsQuizCheck(dto[p].status)
                        THEN "findQuizzes" ELSE "findProgress"]
    /\ UNCHANGED <<storeVars, calls, dto, enrollment, qlist, qi, progress,
                   rows0, consulted, lastOk, first, prev>>

\* checkQuizRequirements: load the lesson's quizzes.
FindQuizzes(p) ==
    /\ pc[p] = "findQuizzes"
    /\ qlist' = [qlist EXCEPT ![p] = QuizFind(dto[p].lessonId)]
    /\ IF Len(QuizFind(dto[p].lessonId)) = 0
       THEN /\ qi' = qi
            /\ pc' = [pc EXCEPT ![p] = "findProgress"]
       ELSE /\ qi' = [qi EXCEPT ![p] = 1]
            /\ pc' = [pc EXCEPT ![p] = "findAttempt"]
    /\ UNCHANGED <<storeVars, calls, dto, enrollment, progress, result,
                   rows0, consulted, lastOk, first, prev>>

\* Fault variant: the requested status is written to the pair's row before
\* the quiz check has decided, so a rejected request leaves its mark.
FindAttemptSavingFirst(p) ==
    /\ pc[p] = "findAttempt"
    /\ LET quiz == qlist[p][qi[p]] IN
       \E a \in AttemptFindOne(enrollment[p], quiz.id) :
          /\ consulted' = [consulted EXCEPT ![p] = Append(@, a)]
          /\ rows' = [i \in 1..Len(rows) |->
                        IF /\ rows[i].enrollment = dto[p].enrollmentId
                           /\ rows[i].lesson = dto[p].lessonId
                        THEN [rows[i] EXCEPT !.status = dto[p].status]
                        ELSE rows[i]]
          /\ IF Unmet(a)
             THEN /\ result' = [result EXCEPT ![p] = QuizRequirementUnmet(quiz)]
                  /\ pc' = [pc EXCEPT ![p] = "done"]
                  /\ qi' = qi
             ELSE /\ result' = result
                  /\ IF qi[p] < Len(qlist[p])
                     THEN /\ qi' = [qi EXCEPT ![p] = @ + 1]
                          /\ pc' = pc
                     ELSE /\ qi' = qi
                          /\ pc' = [pc EXCEPT ![p] = "findProgress"]
    /\ UNCHANGED <<quizzes, attempts, calls, dto, enrollment, qlist, progress,
                   rows0, lastOk, first, prev>>

\* checkQuizRequirements: one iteration of the loop over the quizzes.
FindAttempt(p) ==
    /\ pc[p] = "findAttempt"
    /\ LET quiz == qlist[p][qi[p]] IN
       \E a \in AttemptFindOne(enrollment[p], quiz.id) :
          /\ consulted' = [consulted EXCEPT ![p] = Append(@, a)]
          /\ IF Unmet(a)
             THEN /\ result' = [result EXCEPT ![p] = QuizRequirementUnmet(quiz)]
                  /\ pc' = [pc EXCEPT ![p] = "done"]
                  /\ qi' = qi
             ELSE /\ result' = result
                  /\ IF qi[p] < Len(qlist[p])
                     THEN /\ qi' = [qi EXCEPT ![p] = @ + 1]
                          /\ pc' = pc
                     ELSE /\ qi' = qi
                          /\ pc' = [pc EXCEPT ![p] = "findProgress"]
    /\ UNCHANGED <<storeVars, calls, dto, enrollment, qlist, progress,
                   rows0, lastOk, first, prev>>

\* The handler loads the pair's progress row.
FindProgress(p) ==
    /\ pc[p] = "findProgress"
    /\ \E r \in ProgressFindOne(dto[p].enrollmentId, dto[p].lessonId) :
          progress' = [progress EXCEPT ![p] = r]
    /\ pc' = [pc EXCEPT ![p] = "save"]
    /\ UNCHANGED <<storeVars, calls, dto, enrollment, qlist, qi, result,
                   rows0, consulted, lastOk, first, prev>>

\* The handler saves the created or modified entity and answers.
Save(p) ==
    /\ pc[p] = "save"
    /\ rows' = SaveProgress(progress[p], dto[p])
    /\ IF InsertRefused(progress[p], dto[p])
       THEN /\ result' = [result EXCEPT ![p] =
                            [kind |-> "QueryFailed", val |-> ""]]
            /\ lastOk' = lastOk
       ELSE /\ result' = [result EXCEPT ![p] =
                            [kind |-> "ok", val |-> dto[p].status]]
            /\ lastOk' = [lastOk EXCEPT ![dto[p].enrollmentId, dto[p].lessonId] =
                             dto[p].status]
    /\ pc' = [pc EXCEPT ![p] = "done"]
    /\ UNCHANGED <<quizzes, attempts, calls, dto, enrollment, qlist, qi,
                   progress, rows0, consulted, first, prev>>

\* The caller receives the answer; the handler is free again.
Respond(p) ==
    /\ pc[p] = "done"
    /\ pc' = [pc EXCEPT ![p] = "idle"]
    /\ dto' = [dto EXCEPT ![p] = NoDto]
    /\ enrollment' = [enrollment EXCEPT ![p] = ""]
    /\ qlist' = [qlist EXCEPT ![p] = << >>]
    /\ qi' = [qi EXCEPT ![p] = 0]
    /\ progress' = [progress EXCEPT ![p] = 0]
    /\ result' = [result EXCEPT ![p] = NoResult]
    /\ rows0' = [rows0 EXCEPT ![p] = << >>]
    /\ consulted' = [consulted EXCEPT ![p] = << >>]
    /\ first' = [first EXCEPT ![p] = NoResult]
    /\ UNCHANGED <<storeVars, calls, lastOk>>

\* ... and the history notes which call returned last.
Return(p) ==
    /\ Respond(p)
    /\ prev' = [dto |-> dto[p], result |-> result[p]]

\* The same where calls overlap and no call is "the last one".
ReturnOverlapped(p) ==
    /\ Respond(p)
    /\ UNCHANGED prev

\* --------------------------------------- other requests on the shared stores
\* A quiz is attached to a lesson.
AddQuiz(l) ==
    /\ quizzes' = Append(quizzes, [id |-> Len(quizzes) + 1, lesson_id |-> l,
                                   title |-> QuizTitles[Len(quizzes) + 1]])
    /\ prev' = NoPrev
    /\ UNCHANGED <<attempts, rows, callVars, lastOk>>

\* A user's attempt at a quiz is recorded.
AddAttempt(u, q, passed) ==
    /\ q \in 1..Len(quizzes)
    /\ attempts' = Append(attempts, [user_id |-> u, quiz_id |-> q,
                                     passed |-> passed])
    /\ prev' = NoPrev
    /\ UNCHANGED <<quizzes, rows, callVars, lastOk>>

\* Fault variant: revoking an attempt takes the COMPLETED rows of the quiz's
\* lesson back to IN_PROGRESS.
RevokeAttemptInvalidating(i) ==
    /\ i \in 1..Len(attempts)
    /\ attempts' = [j \in 1..(Len(attempts) - 1) |->
                        IF j < i THEN attempts[j] ELSE attempts[j + 1]]
    /\ rows' = [j \in 1..Len(rows) |->
                    IF /\ rows[j].lesson = quizzes[attempts[i].quiz_id].lesson_id
                       /\ rows[j].status = COMPLETED
                    THEN [rows[j] EXCEPT !.status = "IN_PROGRESS"]
                    ELSE rows[j]]
    /\ prev' = NoPrev
    /\ UNCHANGED <<quizzes, callVars, lastOk>>

\* An attempt is revoked: it is removed from the attempt store.
RevokeAttempt(i) ==
    /\ i \in 1..Len(attempts)
    /\ attempts' = [j \in 1..(Len(attempts) - 1) |->
                        IF j < i THEN attempts[j] ELSE attempts[j + 1]]
    /\ prev' = NoPrev
    /\ UNCHANGED <<quizzes, rows, callVars, lastOk>>

AllIdle == \A p \in Procs : pc[p] = "idle"

\* ---------------------------------------------------------- specifications
\* Requests for existing enrollments and lessons overlap: every await is a
\* point where another handler may run.  Lesson l1 may get a quiz; attempts
\* are not recorded.
Next ==
    \/ \E p \in Procs, e \in EnrollmentIds, l \in LessonIds, s \in ProgressStatus :
          calls < MaxCalls /\ calls' = calls + 1 /\ Start(p, e, l, s) /\ UNCHANGED otherVars
    \/ \E p \in Procs : FindLesson(p) /\ UNCHANGED otherVars
    \/ \E p \in Procs : FindQuizzes(p) /\ UNCHANGED otherVars
    \/ \E p \in Procs : FindAttempt(p) /\ UNCHANGED otherVars
    \/ \E p \in Procs : FindProgress(p) /\ UNCHANGED otherVars
    \/ \E p \in Procs : Save(p) /\ UNCHANGED otherVars
    \/ \E p \in Procs : ReturnOverlapped(p) /\ UNCHANGED otherVars
    \/ Len(quizzes) < MaxLessonQuizzes /\ AddQuiz("l1") /\ UNCHANGED otherVars

Spec == Init /\ [][Next]_vars

\* Two overlapping handlers on a pair whose row already exists.
InitWriters ==
    /\ ProgressIdle
    /\ \E st \in ProgressStatus :
          rows = <<[enrollment |-> "e1", lesson |-> "l1", status |-> st]>>
    /\ ValidatorIdle /\ RateIdle /\ ServicesIdle

NextWriters ==
    \/ \E p \in Procs, st \in ProgressStatus :
          calls < MaxCalls /\ calls' = calls + 1 /\ Start(p, "e1", "l1", st)
            /\ UNCHANGED otherVars
    \/ \E p \in Procs : FindLesson(p) /\ UNCHANGED otherVars
    \/ \E p \in Procs : FindQuizzes(p) /\ UNCHANGED otherVars
    \/ \E p \in Procs : FindAttempt(p) /\ UNCHANGED otherVars
    \/ \E p \in Procs : FindProgress(p) /\ UNCHANGED otherVars
    \/ \E p \in Procs : Save(p) /\ UNCHANGED otherVars
    \/ \E p \in Procs : ReturnOverlapped(p) /\ UNCHANGED otherVars
    \/ Len(quizzes) < MaxLessonQuizzes /\ AddQuiz("l1") /\ UNCHANGED otherVars

SpecWriters == InitWriters /\ [][NextWriters]_vars

\* Requests do not overlap: one handler, and the quiz store changes only
\* between calls.
NextSeq ==
    \/ \E e \in EnrollmentInputs, l \in LessonInputs, s \in ProgressStatus :
          calls < MaxCalls /\ calls' = calls + 1 /\ Start(1, e, l, s) /\ UNCHANGED otherVars
    \/ FindLesson(1) /\ UNCHANGED otherVars
    \/ FindQuizzes(1) /\ UNCHANGED otherVars
    \/ FindAttempt(1) /\ UNCHANGED otherVars
    \/ FindProgress(1) /\ UNCHANGED otherVars
    \/ Save(1) /\ UNCHANGED otherVars
    \/ Return(1) /\ UNCHANGED otherVars
    \/ AllIdle /\ Len(quizzes) < MaxLessonQuizzes /\ AddQuiz("l1") /\ UNCHANGED otherVars

SpecSeq == Init /\ [][NextSeq]_vars

\* The gate over every quiz and attempt store within the bounds: one
\* handler serving requests for the pair (e1, l1), with quizzes attached to
\* either lesson and attempts of either user recorded and revoked between
\* its calls.
NextGate ==
    \/ \E s \in ProgressStatus : Start(1, "e1", "l1", s) /\ UNCHANGED calls /\ UNCHANGED otherVars
    \/ FindLesson(1) /\ UNCHANGED otherVars
    \/ FindQuizzes(1) /\ UNCHANGED otherVars
    \/ FindAttempt(1) /\ UNCHANGED otherVars
    \/ FindProgress(1) /\ UNCHANGED otherVars
    \/ Save(1) /\ UNCHANGED otherVars
    \/ Return(1) /\ UNCHANGED otherVars
    \/ AllIdle /\ Len(quizzes) < MaxQuizzes /\ \E l \in LessonIds : AddQuiz(l) /\ UNCHANGED otherVars
    \/ AllIdle /\ Len(attempts) < MaxAttempts
          /\ \E u \in UserIds, q \in 1..MaxQuizzes, b \in BOOLEAN :
                AddAttempt(u, q, b) /\ UNCHANGED otherVars
    \/ AllIdle /\ \E i \in 1..MaxAttempts : RevokeAttempt(i) /\ UNCHANGED otherVars

SpecGate == Init /\ [][NextGate]_vars

\* ------------------------------------------------------------ quiz requests
\* Answer texts are strings of characters, so that lower-casing is computed.
TextTrue == <<"T", "r", "u", "e">>
TextFalse == <<"F", "a", "l", "s", "e">>
TextTRUE == <<"T", "R", "U", "E">>
TextYes == <<"Y", "e", "s">>
TextNo == <<"N", "o">>
TextMaybe == <<"M", "a", "y", "b", "e">>
Texts == {TextTrue, TextFalse, TextTRUE, TextYes, TextNo, TextMaybe}

\* The tokens validateBoolQuestion looks for.
TokenTrue == <<"t", "r", "u", "e">>
TokenFalse == <<"f", "a", "l", "s", "e">>
TokenYes == <<"y", "e", "s">>
TokenNo == <<"n", "o">>

KnownTypes == {"UNIQUE", "MULTIPLE", "TEXT", "BOOL"}
QuestionTypes == KnownTypes \cup {"ESSAY"}

Answers == [text : Texts, correct : BOOLEAN]
AnswerLists == UNION {[1..n -> Answers] : n \in 0..MaxAnswers}

\* A question either lacks its answers property or carries a list.
QuestionsOver(lists) ==
    [type : QuestionTypes, hasAnswers : {TRUE}, answers : lists]
        \cup [type : QuestionTypes, hasAnswers : {FALSE}, answers : {<< >>}]

Questions == QuestionsOver(AnswerLists)

\* The questions multi-question quizzes are built from: up to two answers
\* out of three.
QuizAnswers == {[text |-> TextTrue, correct |-> TRUE],
                [text |-> TextFalse, correct |-> FALSE],
                [text |-> TextMaybe, correct |-> FALSE]}
QuizQuestions == QuestionsOver(UNION {[1..n -> QuizAnswers] : n \in 0..2})

\* A request either lacks its questions property or carries a list.
QuizOf(qs) == [hasQuestions |-> TRUE, questions |-> qs]
SingleQuestionQuizzes == {QuizOf(<<q>>) : q \in Questions}
Quizzes ==
    {NoQuiz} \cup {QuizOf(qs) : qs \in UNION {[1..n -> QuizQuestions] : n \in 0..MaxQuestions}}

\* ------------------------------------------------------------ validateQuiz
Error(kind, pos, rule) == [kind |-> kind, pos |-> pos, rule |-> rule]
Valid == [kind |-> "ok", pos |-> 0, rule |-> ""]

\* String.prototype.toLowerCase over the letters that occur.
LowerChar(c) ==
    CASE c = "T" -> "t" [] c = "R" -> "r" [] c = "U" -> "u" [] c = "E" -> "e"
      [] c = "F" -> "f" [] c = "Y" -> "y" [] c = "N" -> "n" [] c = "M" -> "m"
      [] OTHER -> c

\* Fault variant: texts are compared as written.
ToLowerCaseIdentity(text) == text

ToLowerCase(text) == [i \in 1..Len(text) |-> LowerChar(text[i])]

\* answers.filter(a => a.correct).length
CorrectAnswers(answers) == Cardinality({i \in 1..Len(answers) : answers[i].correct})

\* answerTexts.includes(token)
Includes(answerTexts, token) == \E i \in 1..Len(answerTexts) : answerTexts[i] = token

\* Fault variant: any number of correct answers but zero is accepted.
validateUniqueQuestionAnyCorrect(question, pos) ==
    IF Len(question.answers) < 2
    THEN Error("InvalidUniqueQuestion", pos, "count")
    ELSE IF CorrectAnswers(question.answers) = 0
         THEN Error("InvalidUniqueQuestion", pos, "correct")
         ELSE Valid

validateUniqueQuestion(question, pos) ==
    IF Len(question.answers) < 2
    THEN Error("InvalidUniqueQuestion", pos, "count")
    ELSE IF CorrectAnswers(question.answers) # 1
         THEN Error("InvalidUniqueQuestion", pos, "correct")
         ELSE Valid

\* Fault variant: a single answer is enough.
validateMultipleQuestionOneAnswer(question, pos) ==
    IF Len(question.answers) < 1
    THEN Error("InvalidMultipleQuestion", pos, "count")
    ELSE IF CorrectAnswers(question.answers) = 0
         THEN Error("InvalidMultipleQuestion", pos, "correct")
         ELSE Valid

validateMultipleQuestion(question, pos) ==
    IF Len(question.answers) < 2
    THEN Error("InvalidMultipleQuestion", pos, "count")
    ELSE IF CorrectAnswers(question.answers) = 0
         THEN Error("InvalidMultipleQuestion", pos, "correct")
         ELSE Valid

\* Fault variant: the first answer's flag is not looked at.
validateTextQuestionAnyFlag(question, pos) ==
    IF Len(question.answers) # 1
    THEN Error("InvalidTextQuestion", pos, "count")
    ELSE Valid

validateTextQuestion(question, pos) ==
    IF Len(question.answers) # 1
    THEN Error("InvalidTextQuestion", pos, "count")
    ELSE IF ~question.answers[1].correct
         THEN Error("InvalidTextQuestion", pos, "correct")
         ELSE Valid

\* Fault variant: one token of a pair is enough.
hasValidBoolOptionsAnyToken(answerTexts) ==
    \/ Includes(answerTexts, TokenTrue) \/ Includes(answerTexts, TokenFalse)
    \/ Includes(answerTexts, TokenYes) \/ Includes(answerTexts, TokenNo)

hasValidBoolOptions(answerTexts) ==
    \/ Includes(answerTexts, TokenTrue) /\ Includes(answerTexts, TokenFalse)
    \/ Includes(answerTexts, TokenYes) /\ Includes(answerTexts, TokenNo)

validateBoolQuestion(question, pos) ==
    IF Len(question.answers) # 2
    THEN Error("InvalidBoolQuestion", pos, "count")
    ELSE IF CorrectAnswers(question.answers) # 1
         THEN Error("InvalidBoolQuestion", pos, "correct")
         ELSE LET answerTexts == [i \in 1..Len(question.answers) |->
                                     ToLowerCase(question.answers[i].text)]
              IN  IF ~hasValidBoolOptions(answerTexts)
                  THEN Error("InvalidBoolQuestion", pos, "text")
                  ELSE Valid

\* The switch on question.type.
\* Fault variant: a type outside the switch is accepted.
validateByTypeLenient(question, pos) ==
    CASE question.type = "UNIQUE" -> validateUniqueQuestion(question, pos)
      [] question.type = "MULTIPLE" -> validateMultipleQuestion(question, pos)
      [] question.type = "TEXT" -> validateTextQuestion(question, pos)
      [] question.type = "BOOL" -> validateBoolQuestion(question, pos)
      [] OTHER -> Valid

validateByType(question, pos) ==
    CASE question.type = "UNIQUE" -> validateUniqueQuestion(question, pos)
      [] question.type = "MULTIPLE" -> validateMultipleQuestion(question, pos)
      [] question.type = "TEXT" -> validateTextQuestion(question, pos)
      [] question.type = "BOOL" -> validateBoolQuestion(question, pos)
      [] OTHER -> Error("UnknownQuestionType", pos, "type")

\* Fault variant: the type is looked at before the answers.
validateQuestionTypeFirst(question, index) ==
    LET pos == index + 1
    IN  IF question.type \notin KnownTypes
        THEN Error("UnknownQuestionType", pos, "type")
        ELSE IF ~question.hasAnswers \/ Len(question.answers) = 0
             THEN Error("EmptyAnswers", pos, "answers")
             ELSE validateByType(question, pos)

validateQuestion(question, index) ==
    LET pos == index + 1
    IN  IF ~question.hasAnswers \/ Len(question.answers) = 0
        THEN Error("EmptyAnswers", pos, "answers")
        ELSE validateByType(question, pos)

\* Fault variant: a single question counts as none.
QuestionsAbsentUnderTwo(quiz) == ~quiz.hasQuestions \/ Len(quiz.questions) < 2

\* !createQuizDto.questions || createQuizDto.questions.length === 0
QuestionsAbsent(quiz) == ~quiz.hasQuestions \/ Len(quiz.questions) = 0

\* validateQuiz is entered: the presence check, then forEach begins.
ValidateQuiz ==
    /\ vpc = "idle"
    /\ IF QuestionsAbsent(vquiz)
       THEN /\ verror' = Error("EmptyQuiz", 0, "questions")
            /\ vpc' = "done"
       ELSE /\ verror' = verror
            /\ vpc' = "loop"
    /\ UNCHANGED <<vquiz, vindex, vvisited, nonValidatorVars>>

\* Fault variant: forEach goes on after a question failed, and the last
\* failure is the one reported.
ForEachStepCollecting ==
    /\ vpc = "loop"
    /\ LET e == validateQuestion(vquiz.questions[vindex + 1], vindex)
       IN  /\ vvisited' = vvisited \cup {vindex}
           /\ verror' = IF e # Valid THEN e
                        ELSE IF vindex + 1 = Len(vquiz.questions) /\ verror = NoError
                             THEN Valid ELSE verror
           /\ IF vindex + 1 = Len(vquiz.questions)
              THEN vpc' = "done" /\ vindex' = vindex
              ELSE vpc' = "loop" /\ vindex' = vindex + 1
    /\ UNCHANGED <<vquiz, nonValidatorVars>>

\* One iteration of questions.forEach: a throw leaves validateQuiz, the
\* last iteration returns from it.
ForEachStep ==
    /\ vpc = "loop"
    /\ LET e == validateQuestion(vquiz.questions[vindex + 1], vindex)
       IN  /\ vvisited' = vvisited \cup {vindex}
           /\ IF e # Valid
              THEN verror' = e /\ vpc' = "done" /\ vindex' = vindex
              ELSE IF vindex + 1 = Len(vquiz.questions)
                   THEN verror' = Valid /\ vpc' = "done" /\ vindex' = vindex
                   ELSE verror' = verror /\ vpc' = "loop" /\ vindex' = vindex + 1
    /\ UNCHANGED <<vquiz, nonValidatorVars>>

\* validateQuiz applied to every quiz of one question.
InitQuestion ==
    /\ ProgressInit
    /\ vquiz \in SingleQuestionQuizzes
    /\ vpc = "idle" /\ vindex = 0 /\ verror = NoError /\ vvisited = {}
    /\ RateIdle
    /\ ServicesIdle

NextValidate == ValidateQuiz \/ ForEachStep

SpecQuestion == InitQuestion /\ [][NextValidate]_vars

\* validateQuiz applied to every quiz of up to MaxQuestions questions.
InitQuiz ==
    /\ ProgressInit
    /\ vquiz \in Quizzes
    /\ vpc = "idle" /\ vindex = 0 /\ verror = NoError /\ vvisited = {}
    /\ RateIdle
    /\ ServicesIdle

SpecQuiz == InitQuiz /\ [][NextValidate]_vars

\* ------------------------------------------------- double-precision numbers
\* A JavaScript number is an IEEE-754 double: a significand of MantissaBits
\* bits, most significant first and starting with 1, whose last bit weighs
\* 2^e.  Every operation rounds its exact result to the nearest double, ties
\* to the even significand.
MantissaBits == 53

\* The binary digits of a positive integer, most significant first.
RECURSIVE IntBits(_)
IntBits(n) == IF n = 0 THEN << >> ELSE Append(IntBits(n \div 2), n % 2)

RECURSIVE BitsToInt(_)
BitsToInt(bits) ==
    IF bits = << >> THEN 0
    ELSE 2 * BitsToInt(SubSeq(bits, 1, Len(bits) - 1)) + bits[Len(bits)]

\* 2^i modulo t, by repeated squaring.
RECURSIVE Pow2Mod(_, _)
Pow2Mod(i, t) ==
    IF i = 0 THEN 1 % t
    ELSE LET h == Pow2Mod(i \div 2, t)
         IN  (((h * h) % t) * (IF i % 2 = 1 THEN 2 ELSE 1)) % t

\* What long division of r by t (r < t) leaves after n binary digits, and
\* the first n digits of r/t after the point, by halves.
FractionRest(r, t, n) == (r * Pow2Mod(n, t)) % t

RECURSIVE FractionBits(_, _, _)
FractionBits(r, t, n) ==
    IF n = 0 THEN << >>
    ELSE IF n = 1 THEN <<(2 * r) \div t>>
    ELSE FractionBits(r, t, n \div 2)
             \o FractionBits(FractionRest(r, t, n \div 2), t, n - (n \div 2))

\* The zero digits of r/t between the point and its first 1 (0 < r < t).
RECURSIVE LeadingZeros(_, _)
LeadingZeros(r, t) == IF 2 * r >= t THEN 0 ELSE 1 + LeadingZeros(2 * r, t)

\* bits + 1; the result is one digit longer when every digit was 1.
Zeros(n) == [i \in 1..n |-> 0]
Increment(bits) ==
    IF \A i \in DOMAIN bits : bits[i] = 1
    THEN <<1>> \o Zeros(Len(bits))
    ELSE LET z == CHOOSE i \in DOMAIN bits :
                      bits[i] = 0 /\ \A j \in (i + 1)..Len(bits) : bits[j] = 1
         IN  SubSeq(bits, 1, z - 1) \o <<1>> \o Zeros(Len(bits) - z)

\* The double nearest to an exact result: bits start with 1 and have more
\* than MantissaBits digits, the last weighing 2^e; sticky tells that the
\* exact result goes on with non-zero digits after them.
RoundToDouble(bits, e, sticky) ==
    LET keep == SubSeq(bits, 1, MantissaBits)
        half == bits[MantissaBits + 1] = 1
        more == sticky \/ \E i \in (MantissaBits + 2)..Len(bits) : bits[i] = 1
        up == half /\ (more \/ keep[MantissaBits] = 1)
        m == IF up THEN Increment(keep) ELSE keep
        e1 == e + Len(bits) - MantissaBits
    IN  IF Len(m) > MantissaBits
        THEN [m |-> SubSeq(m, 1, MantissaBits), e |-> e1 + 1]
        ELSE [m |-> m, e |-> e1]

\* completed / total for positive integers.
Divide(c, t) ==
    LET ib == IntBits(c \div t)
        r == c % t
    IN  IF ib # << >>
        THEN LET nf == MantissaBits + 1 - Len(ib)
             IN  RoundToDouble(ib \o FractionBits(r, t, nf), -nf,
                               FractionRest(r, t, nf) # 0)
        ELSE LET z == LeadingZeros(r, t)
                 nf == MantissaBits + 1
             IN  RoundToDouble(FractionBits(r * 2^z, t, nf), -(nf + z),
                               FractionRest(r * 2^z, t, nf) # 0)

\* Long multiplication in digits of LimbBits bits: k times the number whose
\* digits, least significant first, are limbs, plus carry.
LimbBits == 15
RECURSIVE MulSmall(_, _, _)
MulSmall(limbs, k, carry) ==
    IF limbs = << >>
    THEN IF carry = 0 THEN << >> ELSE <<carry>>
    ELSE <<(Head(limbs) * k + carry) % 2^LimbBits>>
             \o MulSmall(Tail(limbs), k, (Head(limbs) * k + carry) \div 2^LimbBits)

\* The digits of LimbBits bits of a number given by its binary digits, and
\* back, without leading zeros (all most significant first).
PadLeft(bits, n) == Zeros(n - Len(bits)) \o bits

RECURSIVE ToLimbs(_)
ToLimbs(bits) ==
    IF Len(bits) <= LimbBits THEN <<BitsToInt(bits)>>
    ELSE Append(ToLimbs(SubSeq(bits, 1, Len(bits) - LimbBits)),
                BitsToInt(SubSeq(bits, Len(bits) - LimbBits + 1, Len(bits))))

RECURSIVE LimbDigits(_)
LimbDigits(limbs) ==
    IF limbs = << >> THEN << >>
    ELSE PadLeft(IntBits(Head(limbs)), LimbBits) \o LimbDigits(Tail(limbs))

FromLimbs(limbs) ==
    LET all == LimbDigits(limbs)
        lead == CHOOSE i \in DOMAIN all : all[i] = 1 /\ \A j \in 1..(i - 1) : all[j] = 0
    IN  SubSeq(all, lead, Len(all))

Reverse(seq) == [i \in 1..Len(seq) |-> seq[Len(seq) + 1 - i]]

\* x * 100
Times100(x) ==
    RoundToDouble(FromLimbs(Reverse(MulSmall(Reverse(ToLimbs(x.m)), 100, 0))), x.e, FALSE)

\* Math.round: the integer nearest to x, halves toward +Infinity.  x lies
\* below 2^52, so its significand has digits after the point.
MathRound(x) ==
    LET ni == MantissaBits + x.e
    IN  IF ni < 0 THEN 0
        ELSE BitsToInt(SubSeq(x.m, 1, ni)) + x.m[ni + 1]

\* Math.round((completed / total) * 100); 0 / total is 0 and stays 0.
CompletionRate(completed, total) ==
    IF completed = 0 THEN 0 ELSE MathRound(Times100(Divide(completed, total)))

\* ------------------------------------------------------- getCompletionRate
\* progressRepo.count({where: {enrollment: {id}}})
CountOfEnrollment(e) == Cardinality({i \in DOMAIN rows : rows[i].enrollment = e})

\* progressRepo.count({where: {enrollment: {id}, status: COMPLETED}})
CountCompletedOfEnrollment(e) ==
    Cardinality({i \in DOMAIN rows : rows[i].enrollment = e /\ rows[i].status = COMPLETED})

\* The request arrives and the rows of the enrollment are counted; without
\* rows the all-zero response is returned.
GetCompletionRate(e) ==
    /\ rpc = "idle"
    /\ renrollment' = e
    /\ rtotal' = CountOfEnrollment(e)
    /\ IF CountOfEnrollment(e) = 0
       THEN /\ rresult' = [enrollmentId |-> e, completed |-> 0, total |-> 0,
                           completionRate |-> 0]
            /\ rpc' = "done"
       ELSE /\ rresult' = rresult
            /\ rpc' = "counted"
    /\ UNCHANGED nonRateVars

\* The COMPLETED rows are counted and the response is returned.
CountCompleted ==
    /\ rpc = "counted"
    /\ rresult' = [enrollmentId |-> renrollment,
                   completed |-> CountCompletedOfEnrollment(renrollment),
                   total |-> rtotal,
                   completionRate |->
                       CompletionRate(CountCompletedOfEnrollment(renrollment), rtotal)]
    /\ rpc' = "done"
    /\ UNCHANGED <<renrollment, rtotal, nonRateVars>>

\* ------------------------------------------------------------ getAnalytics
PERCENTAGE_MULTIPLIER == 100

\* x * PERCENTAGE_MULTIPLIER
TimesMultiplier(x) ==
    RoundToDouble(FromLimbs(Reverse(MulSmall(Reverse(ToLimbs(x.m)),
                                             PERCENTAGE_MULTIPLIER, 0))), x.e, FALSE)

\* totalProgress > 0 ? (completed / totalProgress) * PERCENTAGE_MULTIPLIER : 0;
\* 0 / totalProgress is 0 and stays 0.
OverallCompletionRate(completed, totalProgress) ==
    IF totalProgress > 0 /\ completed > 0
    THEN TimesMultiplier(Divide(completed, totalProgress))
    ELSE DoubleZero

\* progressRepo.count({where: {status: COMPLETED}})
CountCompletedRows == Cardinality({i \in DOMAIN rows : rows[i].status = COMPLETED})

\* The request arrives and all rows are counted.
GetAnalytics ==
    /\ apc = "idle"
    /\ atotal' = Len(rows)
    /\ apc' = "counted"
    /\ UNCHANGED <<aresult, nonAnalyticsVars>>

\* The COMPLETED rows are counted and the response is returned.
AnalyticsCountCompleted ==
    /\ apc = "counted"
    /\ aresult' = [totalProgress |-> atotal,
                   completed |-> CountCompletedRows,
                   overallCompletionRate |->
                       OverallCompletionRate(CountCompletedRows, atotal)]
    /\ apc' = "done"
    /\ UNCHANGED <<atotal, nonAnalyticsVars>>

\* -------------------------------------------------------- getCourseProgress
\* progressRepo.find({where: {enrollment: {id}}}) mapped to DTOs.
GetCourseProgress(e) ==
    /\ cpresult' = SelectSeq(rows, LAMBDA r : r.enrollment = e)
    /\ UNCHANGED nonReadVars

\* A progress store with t rows of enrollment e1, the first c of them
\* COMPLETED, after o COMPLETED rows of enrollment e2.
StoreOf(c, t, o) ==
    [i \in 1..(o + t) |->
        IF i <= o
        THEN [enrollment |-> "e2", lesson |-> ToString(i), status |-> COMPLETED]
        ELSE [enrollment |-> "e1", lesson |-> ToString(i - o),
              status |-> IF i - o <= c THEN COMPLETED
                         ELSE IF i % 2 = 0 THEN "IN_PROGRESS" ELSE "NOT_STARTED"]]

\* getCompletionRate applied to every store of up to MaxRows rows of e1, for
\* e1, for e2 and for an enrollment without rows.
InitRate ==
    /\ ProgressIdle
    /\ rows \in UNION {{StoreOf(c, t, o) : c \in 0..t, o \in 0..1} : t \in 0..MaxRows}
    /\ ValidatorIdle
    /\ RateIdle
    /\ ServicesIdle

NextRate ==
    \/ \E e \in EnrollmentInputs : GetCompletionRate(e)
    \/ CountCompleted
    \/ GetAnalytics
    \/ AnalyticsCountCompleted

SpecRate == InitRate /\ [][NextRate]_vars

\* No read operation has been called yet.
ReadsIdle == rpc = "idle" /\ apc = "idle" /\ cpresult = << >>

\* ------------------------------------------------------------------ reviews
CourseIds == {"c1", "c2"}             \* courses that exist
CourseInputs == CourseIds \cup {"c0"}  \* ... and one that does not
UserInputs == UserIds \cup {"u0"}      \* the users and one that does not exist

\* reviewRepository.findOne({where: {userId, courseId}})
ReviewFindById(courseId, userId) ==
    {i \in 1..Len(reviews) :
        reviews[i].userId = userId /\ reviews[i].courseId = courseId}

\* ReviewsRepository.create: reviewRepository.create(review) makes an entity
\* instance from the one it is given and returns it; no INSERT is issued.
ReviewsRepositoryCreate(review) == reviews

\* ReviewsRepository.delete: reviewRepository.delete({courseId, userId})
ReviewsRepositoryDelete(courseId, userId) ==
    SelectSeq(reviews, LAMBDA r : ~(r.userId = userId /\ r.courseId = courseId))

\* The response of createReview.
CreateReviewKind(userId, courseId) ==
    IF ReviewFindById(courseId, userId) # {} THEN "ReviewAlreadyExists"
    ELSE IF courseId \notin CourseIds THEN "CourseNotFound"
    ELSE IF userId \notin UserIds THEN "UserNotFound"
    ELSE "ok"

CreateReview(userId, courseId) ==
    /\ rv' = [op |-> "createReview", userId |-> userId, courseId |-> courseId,
              kind |-> CreateReviewKind(userId, courseId),
              live |-> <<userId, courseId>> \in created]
    /\ IF CreateReviewKind(userId, courseId) = "ok"
       THEN /\ reviews' = ReviewsRepositoryCreate([userId |-> userId,
                                                   courseId |-> courseId])
            /\ created' = created \cup {<<userId, courseId>>}
       ELSE UNCHANGED <<reviews, created>>
    /\ UNCHANGED nonReviewVars

\* findCourseMyReview: findByIdOrThrow.
FindCourseMyReview(userId, courseId) ==
    /\ rv' = [op |-> "findCourseMyReview", userId |-> userId, courseId |-> courseId,
              kind |-> IF ReviewFindById(courseId, userId) # {}
                       THEN "ok" ELSE "ReviewNotFound",
              live |-> <<userId, courseId>> \in created]
    /\ UNCHANGED <<reviews, created, nonReviewVars>>

DeleteReview(userId, courseId) ==
    /\ reviews' = ReviewsRepositoryDelete(courseId, userId)
    /\ created' = created \ {<<userId, courseId>>}
    /\ rv' = [op |-> "deleteReview", userId |-> userId, courseId |-> courseId,
              kind |-> "ok", live |-> <<userId, courseId>> \in created]
    /\ UNCHANGED nonReviewVars

\* Review requests, one after the other.
NextReviews ==
    \/ \E u \in UserInputs, c \in CourseInputs : CreateReview(u, c)
    \/ \E u \in UserIds, c \in CourseIds : FindCourseMyReview(u, c)
    \/ \E u \in UserIds, c \in CourseIds : DeleteReview(u, c)

SpecReviews == Init /\ [][NextReviews]_vars

\* --------------------------------------------------------------- categories
MaxCategories == 2

\* Category names are strings of characters, so that LOWER() is computed.
NameMath == <<"M", "a", "t", "h">>
NameMathLower == <<"m", "a", "t", "h">>
NameNet == <<"N", "e", "t">>
CategoryNames == {NameMath, NameMathLower, NameNet}

\* @PrimaryGeneratedColumn('uuid'): the n-th id issued; "" is no id at all.
CategoryId(n) == ToString(n)
CategoryIdInputs == {CategoryId(n) : n \in 1..MaxCategories}

\* categoryRepository.count({where: {id}}) > 0
CategoryExists(id) == \E i \in 1..Len(cats) : cats[i].id = id

\* LOWER(category.name) = LOWER(:name), and category.id != :excludeId when
\* an excludeId is given.
NameExists(name, excludeId) ==
    \E i \in 1..Len(cats) :
        /\ ToLowerCase(cats[i].name) = ToLowerCase(name)
        /\ excludeId = "" \/ cats[i].id # excludeId

\* @Column({unique: true}) on name: the store refuses a second row with the
\* same name, compared as written.
NameTaken(name, id) ==
    \E i \in 1..Len(cats) : cats[i].name = name /\ cats[i].id # id

\* Fault variant: the associated courses are not looked at.
HasCoursesNever(category) == FALSE

\* category.courses && category.courses.length > 0
HasCourses(category) == category.courses > 0

\* Creates that have passed the name check and not written yet.
CreatesInFlight ==
    Cardinality({p \in Procs : catpc[p] = "write" /\ catdto[p].op = "create"})

\* createCategory: the request arrives and the name is looked up.
CreateCategory(p, name) ==
    /\ catpc[p] = "idle"
    /\ catIds + CreatesInFlight < MaxCategories
    /\ catdto' = [catdto EXCEPT ![p] =
                     [op |-> "create", id |-> "", hasName |-> TRUE, name |-> name]]
    /\ cats0' = [cats0 EXCEPT ![p] = cats]
    /\ IF NameExists(name, "")
       THEN /\ catresult' = [catresult EXCEPT ![p] = [kind |-> "Conflict"]]
            /\ catpc' = [catpc EXCEPT ![p] = "done"]
       ELSE /\ catresult' = catresult
            /\ catpc' = [catpc EXCEPT ![p] = "write"]
    /\ UNCHANGED <<cats, catIds, nonCategoryVars>>

\* updateCategory: the request arrives and the category is looked up.
UpdateCategory(p, id, hasName, name) ==
    /\ catpc[p] = "idle"
    /\ catdto' = [catdto EXCEPT ![p] =
                     [op |-> "update", id |-> id, hasName |-> hasName, name |-> name]]
    /\ cats0' = [cats0 EXCEPT ![p] = cats]
    /\ IF id = ""
       THEN /\ catresult' = [catresult EXCEPT ![p] = [kind |-> "BadRequest"]]
            /\ catpc' = [catpc EXCEPT ![p] = "done"]
       ELSE IF ~CategoryExists(id)
       THEN /\ catresult' = [catresult EXCEPT ![p] = [kind |-> "NotFound"]]
            /\ catpc' = [catpc EXCEPT ![p] = "done"]
       ELSE /\ catresult' = catresult
            /\ catpc' = [catpc EXCEPT ![p] = IF hasName THEN "nameExists" ELSE "write"]
    /\ UNCHANGED <<cats, catIds, nonCategoryVars>>

\* updateCategory: the new name is looked up among the other categories.
CheckName(p) ==
    /\ catpc[p] = "nameExists"
    /\ IF NameExists(catdto[p].name, catdto[p].id)
       THEN /\ catresult' = [catresult EXCEPT ![p] = [kind |-> "Conflict"]]
            /\ catpc' = [catpc EXCEPT ![p] = "done"]
       ELSE /\ catresult' = catresult
            /\ catpc' = [catpc EXCEPT ![p] = "write"]
    /\ UNCHANGED <<cats, catIds, catdto, cats0, nonCategoryVars>>

\* CategoriesRepository.create: create + save, an INSERT.
InsertCategory(d) ==
    IF NameTaken(d.name, "") THEN cats
    ELSE Append(cats, [id |-> CategoryId(catIds + 1), name |-> d.name, courses |-> 0])

\* CategoriesRepository.update: categoryRepository.update(id, dto).
UpdateCategoryRow(d) ==
    IF d.hasName /\ ~NameTaken(d.name, d.id)
    THEN [i \in 1..Len(cats) |->
            IF cats[i].id = d.id THEN [cats[i] EXCEPT !.name = d.name] ELSE cats[i]]
    ELSE cats

\* The write of createCategory or updateCategory and the response.
WriteCategory(p) ==
    /\ catpc[p] = "write"
    /\ IF catdto[p].op = "create"
       THEN /\ cats' = InsertCategory(catdto[p])
            /\ catIds' = IF NameTaken(catdto[p].name, "") THEN catIds ELSE catIds + 1
            /\ catresult' = [catresult EXCEPT ![p] =
                    [kind |-> IF NameTaken(catdto[p].name, "")
                              THEN "QueryFailed" ELSE "ok"]]
       ELSE /\ cats' = UpdateCategoryRow(catdto[p])
            /\ catIds' = catIds
            /\ catresult' = [catresult EXCEPT ![p] =
                    [kind |-> IF /\ catdto[p].hasName
                                 /\ CategoryExists(catdto[p].id)
                                 /\ NameTaken(catdto[p].name, catdto[p].id)
                              THEN "QueryFailed"
                              ELSE IF CategoryExists(catdto[p].id) THEN "ok"
                              ELSE "NotFound"]]
    /\ catpc' = [catpc EXCEPT ![p] = "done"]
    /\ UNCHANGED <<catdto, cats0, nonCategoryVars>>

\* The response of deleteCategory.
DeleteCategoryKind(id) ==
    IF id = "" THEN "BadRequest"
    ELSE IF ~CategoryExists(id) THEN "NotFound"
    ELSE IF \E i \in 1..Len(cats) : cats[i].id = id /\ HasCourses(cats[i])
    THEN "BadRequest"
    ELSE "ok"

\* deleteCategory, served without another request in between.
DeleteCategory(p, id) ==
    /\ catpc[p] = "idle"
    /\ catdto' = [catdto EXCEPT ![p] =
                     [op |-> "delete", id |-> id, hasName |-> FALSE, name |-> << >>]]
    /\ cats0' = [cats0 EXCEPT ![p] = cats]
    /\ catresult' = [catresult EXCEPT ![p] = [kind |-> DeleteCategoryKind(id)]]
    /\ cats' = IF DeleteCategoryKind(id) = "ok"
               THEN SelectSeq(cats, LAMBDA r : r.id # id) ELSE cats
    /\ catpc' = [catpc EXCEPT ![p] = "done"]
    /\ UNCHANGED <<catIds, nonCategoryVars>>

\* The caller receives the answer; the handler is free again.
CategoryReturn(p) ==
    /\ catpc[p] = "done"
    /\ catpc' = [catpc EXCEPT ![p] = "idle"]
    /\ catdto' = [catdto EXCEPT ![p] = NoCategoryDto]
    /\ catresult' = [catresult EXCEPT ![p] = NoCategoryResult]
    /\ cats0' = [cats0 EXCEPT ![p] = << >>]
    /\ UNCHANGED <<cats, catIds, nonCategoryVars>>

\* A course is created in a category.
AttachCourse(id) ==
    /\ \A p \in Procs : catpc[p] = "idle"
    /\ \E i \in 1..Len(cats) : cats[i].id = id /\ cats[i].courses = 0
    /\ cats' = [i \in 1..Len(cats) |->
                   IF cats[i].id = id THEN [cats[i] EXCEPT !.courses = 1] ELSE cats[i]]
    /\ UNCHANGED <<catIds, catpc, catdto, catresult, cats0, nonCategoryVars>>

\* Two handlers creating and renaming categories at once.
NextCategories ==
    \/ \E p \in Procs, name \in CategoryNames : CreateCategory(p, name)
    \/ \E p \in Procs, id \in CategoryIdInputs, name \in CategoryNames :
          UpdateCategory(p, id, TRUE, name)
    \/ \E p \in Procs : CheckName(p)
    \/ \E p \in Procs : WriteCategory(p)
    \/ \E p \in Procs : CategoryReturn(p)

SpecCategories == Init /\ [][NextCategories]_vars

\* Category requests one after the other, courses created in between.
NextCategoriesSeq ==
    \/ \E name \in CategoryNames : CreateCategory(1, name)
    \/ \E id \in CategoryIdInputs \cup {""}, name \in CategoryNames :
          UpdateCategory(1, id, TRUE, name)
    \/ \E id \in CategoryIdInputs : UpdateCategory(1, id, FALSE, << >>)
    \/ CheckName(1)
    \/ WriteCategory(1)
    \/ \E id \in CategoryIdInputs \cup {""} : DeleteCategory(1, id)
    \/ CategoryReturn(1)
    \/ \E id \in CategoryIdInputs : AttachCourse(id)

SpecCategoriesSeq == Init /\ [][NextCategoriesSeq]_vars

\* All operations of CourseProgressService side by side: one updateProgress
\* handler serving enrollment e1, one read running between its awaits, and
\* a quiz and attempts of u1 coming and going between its calls.
NextService ==
    \/ \E l \in LessonIds, st \in ProgressStatus :
          calls < MaxCalls /\ calls' = calls + 1 /\ Start(1, "e1", l, st)
            /\ UNCHANGED otherVars
    \/ FindLesson(1) /\ UNCHANGED otherVars
    \/ FindQuizzes(1) /\ UNCHANGED otherVars
    \/ FindAttempt(1) /\ UNCHANGED otherVars
    \/ FindProgress(1) /\ UNCHANGED otherVars
    \/ Save(1) /\ UNCHANGED otherVars
    \/ Return(1) /\ UNCHANGED otherVars
    \/ AllIdle /\ Len(quizzes) < MaxLessonQuizzes /\ AddQuiz("l1") /\ UNCHANGED otherVars
    \/ AllIdle /\ Len(attempts) < MaxLessonQuizzes
          /\ \E q \in 1..MaxLessonQuizzes, b \in BOOLEAN :
                AddAttempt("u1", q, b) /\ UNCHANGED otherVars
    \/ AllIdle /\ \E i \in 1..MaxLessonQuizzes : RevokeAttempt(i) /\ UNCHANGED otherVars
    \/ ReadsIdle /\ GetCompletionRate("e1")
    \/ CountCompleted
    \/ ReadsIdle /\ GetAnalytics
    \/ AnalyticsCountCompleted
    \/ ReadsIdle /\ rows # << >> /\ GetCourseProgress("e1")

SpecService == Init /\ [][NextService]_vars

\* ------------------------------------------------------------------ claims
\* What the claims speak of, read off the stores.
Done(p) == pc[p] = "done"
Ok(p) == result[p].kind = "ok"
Rejected(p) == result[p].kind = "QuizRequirementUnmet"
Known(p) ==
    dto[p].enrollmentId \in EnrollmentIds /\ dto[p].lessonId \in LessonIds
CompletedCall(p) == Done(p) /\ Known(p) /\ dto[p].status = COMPLETED
UserOf(p) == EnrollmentUser[dto[p].enrollmentId]
LessonQuizzes(l) == {i \in 1..Len(quizzes) : quizzes[i].lesson_id = l}
AttemptsOf(u, q) ==
    {i \in 1..Len(attempts) : attempts[i].user_id = u /\ attempts[i].quiz_id = q}
HasPassing(u, q) == \E i \in AttemptsOf(u, q) : attempts[i].passed
HasFailed(u, q) == \E i \in AttemptsOf(u, q) : ~attempts[i].passed
PairRows(rs, e, l) ==
    {i \in 1..Len(rs) : rs[i].enrollment = e /\ rs[i].lesson = l}

\* C1 (gate safety): a call that succeeds with status COMPLETED ran its quiz
\* check on stores in which every quiz of the requested lesson had a passing
\* attempt by the enrollment's user, and it left the pair's row COMPLETED.
\* Attempts of other users and quizzes of other lessons do not enter.
GateSafety ==
    \A p \in Procs :
        (CompletedCall(p) /\ Ok(p)) =>
            /\ \A q \in LessonQuizzes(dto[p].lessonId) : HasPassing(UserOf(p), q)
            /\ \E i \in PairRows(rows, dto[p].enrollmentId, dto[p].lessonId) :
                  rows[i].status = COMPLETED

\* C1 happens: a COMPLETED request went through for a lesson with a quiz while
\* another user also had an attempt and a quiz of another lesson was unpassed.
GateSafetyWitness ==
    \E p \in Procs :
        /\ CompletedCall(p) /\ Ok(p)
        /\ LessonQuizzes(dto[p].lessonId) # {}
        /\ \E i \in 1..Len(attempts) : attempts[i].user_id # UserOf(p)
        /\ \E q \in 1..Len(quizzes) :
              quizzes[q].lesson_id # dto[p].lessonId /\ ~HasPassing(UserOf(p), q)

\* C2 (gate completeness, as claimed): a COMPLETED request for an existing
\* enrollment and lesson succeeds whenever every quiz of the lesson has at
\* least one passing attempt by the user, further failed attempts or not.
GateCompleteness ==
    \A p \in Procs :
        (/\ CompletedCall(p)
         /\ \A q \in LessonQuizzes(dto[p].lessonId) : HasPassing(UserOf(p), q))
        => Ok(p)

\* C3 (as claimed): with several attempts at a quiz, the latest one governs:
\* the quiz passes exactly when the user's latest attempt at it has passed.
LatestPassed(u, q) ==
    /\ AttemptsOf(u, q) # {}
    /\ attempts[CHOOSE i \in AttemptsOf(u, q) :
                    \A j \in AttemptsOf(u, q) : j <= i].passed
Upserted(p) ==
    LET old == PairRows(rows0[p], dto[p].enrollmentId, dto[p].lessonId)
    IN  IF old = {}
        THEN rows = Append(rows0[p], [enrollment |-> dto[p].enrollmentId,
                                      lesson |-> dto[p].lessonId,
                                      status |-> dto[p].status])
        ELSE \E i \in old : rows = [rows0[p] EXCEPT ![i].status = dto[p].status]

\* C4: a request with a status other than COMPLETED never reaches the quiz
\* check; for an existing enrollment and lesson it succeeds, returns the
\* requested status and stores it, overwriting the row's status if there is
\* a row, whatever the quizzes and attempts are.
NonCompletedBypassesGate ==
    \A p \in Procs :
        /\ pc[p] \in {"findQuizzes", "findAttempt"} => dto[p].status = COMPLETED
        /\ (Done(p) /\ Known(p) /\ dto[p].status # COMPLETED) =>
              /\ Ok(p) /\ result[p].val = dto[p].status
              /\ qlist[p] = << >> /\ consulted[p] = << >>
              /\ Upserted(p)

\* C4 happens: a COMPLETED row was overwritten by another status while a quiz
\* of the lesson had no passing attempt by the user.
NonCompletedWitness ==
    \E p \in Procs :
        /\ Done(p) /\ Known(p) /\ dto[p].status # COMPLETED
        /\ \E i \in PairRows(rows0[p], dto[p].enrollmentId, dto[p].lessonId) :
              rows0[p][i].status = COMPLETED /\ rows[i].status = dto[p].status
        /\ \E q \in LessonQuizzes(dto[p].lessonId) : ~HasPassing(UserOf(p), q)

\* C5: for an existing enrollment and a lesson without quizzes, a COMPLETED
\* request succeeds and stores COMPLETED without looking up any attempt,
\* whatever attempts the user has.
ZeroQuizLessonCompletes ==
    \A p \in Procs :
        (CompletedCall(p) /\ LessonQuizzes(dto[p].lessonId) = {}) =>
            /\ Ok(p) /\ result[p].val = COMPLETED
            /\ consulted[p] = << >>
            /\ Upserted(p)

\* C5 happens: the lesson has no quiz and the user's only attempts are failed
\* attempts at a quiz of another lesson.
ZeroQuizWitness ==
    \E p \in Procs :
        /\ CompletedCall(p) /\ Ok(p)
        /\ LessonQuizzes(dto[p].lessonId) = {}
        /\ \E i \in 1..Len(attempts) : attempts[i].user_id = UserOf(p)
        /\ \A i \in 1..Len(attempts) :
              attempts[i].user_id = UserOf(p) => ~attempts[i].passed

ResolutionOrder ==
    \A p \in Procs :
        /\ pc[p] = "findLesson" => dto[p].enrollmentId \in EnrollmentIds
        /\ pc[p] \in {"findQuizzes", "findAttempt", "findProgress", "save"}
              => Known(p)
        /\ Done(p) =>
              /\ (result[p].kind = "EnrollmentNotFound")
                    <=> (dto[p].enrollmentId \notin EnrollmentIds)
              /\ (result[p].kind = "LessonNotFound")
                    <=> (/\ dto[p].enrollmentId \in EnrollmentIds
                         /\ dto[p].lessonId \notin LessonIds)
              /\ Rejected(p) => Known(p)
              /\ ~Known(p) => /\ qlist[p] = << >> /\ consulted[p] = << >>
                              /\ rows = rows0[p]

\* C7 happens: an unknown enrollment asked to complete a lesson whose quiz
\* nobody has passed, and the answer was EnrollmentNotFound.
ResolutionOrderWitness ==
    \E p \in Procs :
        /\ Done(p)
        /\ dto[p].enrollmentId \notin EnrollmentIds
        /\ dto[p].lessonId \in LessonIds
        /\ dto[p].status = COMPLETED
        /\ LessonQuizzes(dto[p].lessonId) # {}
        /\ result[p].kind = "EnrollmentNotFound"

\* C8: when calls do not overlap, a pair that no call has succeeded for has
\* no row, and a pair some call has succeeded for has exactly one row, whose
\* status is that of the last successful call; a successful call creates the
\* row if the pair had none and otherwise changes the status of the row that
\* was there, touching nothing else.
OneRowPerPairSequential ==
    /\ \A e \in EnrollmentIds, l \in LessonIds :
          IF lastOk[e, l] = ""
          THEN PairRows(rows, e, l) = {}
          ELSE /\ Cardinality(PairRows(rows, e, l)) = 1
               /\ \A i \in PairRows(rows, e, l) : rows[i].status = lastOk[e, l]
    /\ \A i \in 1..Len(rows) :
          rows[i].enrollment \in EnrollmentIds /\ rows[i].lesson \in LessonIds
    /\ \A p \in Procs : (Done(p) /\ Ok(p)) => Upserted(p)

\* C8 happens: the second successful call for a pair changed the status of
\* the row the first one created.
OneRowPerPairWitness ==
    \E p \in Procs :
        /\ Done(p) /\ Ok(p)
        /\ Len(rows) = Len(rows0[p])
        /\ \E i \in PairRows(rows0[p], dto[p].enrollmentId, dto[p].lessonId) :
              rows0[p][i].status # dto[p].status /\ rows[i].status = dto[p].status

\* C9 (idempotence, as claimed): when a call that succeeded is repeated at
\* once with the same request, the second call returns what the first
\* returned, leaves the progress store as the first left it, and the pair
\* has exactly one row.
IdempotentRepeat ==
    \A p \in Procs :
        (Done(p) /\ first[p].kind = "ok") =>
            /\ result[p] = first[p]
            /\ rows = rows0[p]
            /\ Cardinality(PairRows(rows, dto[p].enrollmentId, dto[p].lessonId)) = 1

\* C10 (as claimed): in every reachable state, overlapping calls included,
\* there is at most one row per (enrollment, lesson) pair.
UniqueRowPerPair ==
    \A e \in EnrollmentIds, l \in LessonIds :
        Cardinality(PairRows(rows, e, l)) <= 1


\* ------------------------------------------------- claims on validateQuiz
Validated == vpc = "done"
Passed == Validated /\ verror = Valid
FailedWith(kind) == Validated /\ verror.kind = kind

\* The question of a single-question quiz, and what the claims say of it.
TheQuestion == vquiz.questions[1]
OfType(type) == vquiz.hasQuestions /\ Len(vquiz.questions) = 1 /\ TheQuestion.type = type
AnswerCount == Len(TheQuestion.answers)
MarkedCorrect == {i \in 1..AnswerCount : TheQuestion.answers[i].correct}

\* Case-insensitive reading of a text, spelled out.
SpellsTrue(text) == text \in {TextTrue, TextTRUE}
SpellsFalse(text) == text = TextFalse
SpellsYes(text) == text = TextYes
SpellsNo(text) == text = TextNo

\* The two texts are, in either order, true/false or yes/no.
ExactPair(a, b) ==
    \/ SpellsTrue(a) /\ SpellsFalse(b)
    \/ SpellsFalse(a) /\ SpellsTrue(b)
    \/ SpellsYes(a) /\ SpellsNo(b)
    \/ SpellsNo(a) /\ SpellsYes(b)

\* C11: validateQuiz fails with EmptyQuiz exactly for the quizzes whose
\* question collection is missing or has zero questions.
EmptyQuizRule ==
    Validated =>
        (verror.kind = "EmptyQuiz" <=> (~vquiz.hasQuestions \/ Len(vquiz.questions) = 0))

EmptyQuizWitness ==
    /\ FailedWith("EmptyQuiz") /\ vquiz.hasQuestions /\ Len(vquiz.questions) = 0

\* C12 as stated: a UNIQUE question whose number of correct answers is not
\* exactly 1 fails with InvalidUniqueQuestion for every number of answers,
\* zero included; with exactly 1 correct and at least 2 answers it passes.
UniqueRuleEveryCount ==
    Validated /\ OfType("UNIQUE") =>
        /\ Cardinality(MarkedCorrect) # 1 => verror.kind = "InvalidUniqueQuestion"
        /\ Cardinality(MarkedCorrect) = 1 /\ AnswerCount >= 2 => verror = Valid

\* C12, amended: the above holds for every number of answers from one up;
\* a UNIQUE question with no answers fails with EmptyAnswers instead.
UniqueRule ==
    Validated /\ OfType("UNIQUE") =>
        /\ AnswerCount >= 1 /\ Cardinality(MarkedCorrect) # 1
              => verror.kind = "InvalidUniqueQuestion"
        /\ Cardinality(MarkedCorrect) = 1 /\ AnswerCount >= 2 => verror = Valid
        /\ AnswerCount = 0 => verror.kind = "EmptyAnswers"

UniqueRuleWitness ==
    /\ FailedWith("InvalidUniqueQuestion") /\ OfType("UNIQUE")
    /\ AnswerCount = 1 /\ MarkedCorrect = {}

\* C13: a MULTIPLE question with at least one answer passes exactly when it
\* has at least 2 answers and at least 1 marked correct, all of them
\* included; otherwise it fails with InvalidMultipleQuestion.
MultipleRule ==
    Validated /\ OfType("MULTIPLE") /\ AnswerCount >= 1 =>
        IF AnswerCount >= 2 /\ Cardinality(MarkedCorrect) >= 1
        THEN verror = Valid
        ELSE verror.kind = "InvalidMultipleQuestion"

MultipleRuleWitness ==
    /\ Passed /\ OfType("MULTIPLE")
    /\ AnswerCount >= 2 /\ Cardinality(MarkedCorrect) = AnswerCount

\* C14: a TEXT question with at least one answer passes exactly when it has
\* exactly 1 answer and that answer is marked correct; otherwise (one answer
\* not marked correct, or two or more answers) it fails with
\* InvalidTextQuestion.
TextRule ==
    Validated /\ OfType("TEXT") /\ AnswerCount >= 1 =>
        IF AnswerCount = 1 /\ MarkedCorrect = {1}
        THEN verror = Valid
        ELSE verror.kind = "InvalidTextQuestion"

TextRuleWitness ==
    /\ FailedWith("InvalidTextQuestion") /\ OfType("TEXT")
    /\ AnswerCount >= 2 /\ Cardinality(MarkedCorrect) = AnswerCount


\* C15: a BOOL question passes exactly when it has exactly 2 answers, exactly
\* 1 marked correct, and the texts are case-insensitively true/false or
\* yes/no in either order; one with answers that does not pass fails with
\* InvalidBoolQuestion.  (True, False) passes; (Maybe, No) and the mixed
\* pair (True, No) fail.
BoolRule ==
    Validated /\ OfType("BOOL") =>
        /\ verror = Valid <=>
              /\ AnswerCount = 2
              /\ Cardinality(MarkedCorrect) = 1
              /\ ExactPair(TheQuestion.answers[1].text, TheQuestion.answers[2].text)
        /\ AnswerCount >= 1 /\ verror # Valid => verror.kind = "InvalidBoolQuestion"
        /\ TheQuestion.answers = <<[text |-> TextTrue, correct |-> TRUE],
                                   [text |-> TextFalse, correct |-> FALSE]>>
              => verror = Valid
        /\ TheQuestion.answers = <<[text |-> TextMaybe, correct |-> TRUE],
                                   [text |-> TextNo, correct |-> FALSE]>>
              => verror.kind = "InvalidBoolQuestion"
        /\ TheQuestion.answers = <<[text |-> TextTrue, correct |-> TRUE],
                                   [text |-> TextNo, correct |-> FALSE]>>
              => verror.kind = "InvalidBoolQuestion"

BoolRuleWitness ==
    /\ Passed /\ OfType("BOOL")
    /\ TheQuestion.answers = <<[text |-> TextTrue, correct |-> TRUE],
                               [text |-> TextFalse, correct |-> FALSE]>>

\* A BOOL question with 2 answers, 1 marked correct, whose texts include a
\* token next to a different value.
TokenBesideOther(q) ==
    /\ q.type = "BOOL" /\ q.hasAnswers /\ Len(q.answers) = 2
    /\ CorrectAnswers(q.answers) = 1
    /\ ~ExactPair(q.answers[1].text, q.answers[2].text)
    /\ \E i \in 1..2 : \/ SpellsTrue(q.answers[i].text) \/ SpellsFalse(q.answers[i].text)
                       \/ SpellsYes(q.answers[i].text) \/ SpellsNo(q.answers[i].text)

\* C16 as stated: some BOOL question with 2 answers and 1 marked correct,
\* whose texts merely include a token next to a different value, passes.
\* Stated where such a question has been validated.
BoolLatitude ==
    Validated /\ OfType("BOOL") /\ TokenBesideOther(TheQuestion) =>
        \E q \in Questions : TokenBesideOther(q) /\ validateQuestion(q, 0) = Valid

\* C16, amended: there is no latitude.  Every BOOL question that passes has
\* texts that are exactly true/false or yes/no, and one whose texts include
\* a token next to a different value fails with InvalidBoolQuestion.
BoolStrictPairing ==
    Validated /\ OfType("BOOL") =>
        /\ verror = Valid =>
              ExactPair(TheQuestion.answers[1].text, TheQuestion.answers[2].text)
        /\ TokenBesideOther(TheQuestion) => verror.kind = "InvalidBoolQuestion"

BoolStrictPairingWitness ==
    /\ FailedWith("InvalidBoolQuestion") /\ OfType("BOOL")
    /\ TokenBesideOther(TheQuestion) /\ verror.rule = "text"

\* C18: a question with at least one answer and a type outside UNIQUE,
\* MULTIPLE, TEXT, BOOL fails with UnknownQuestionType whatever its answers;
\* a question of a known type never does.
UnknownTypeRule ==
    Validated /\ vquiz.hasQuestions /\ Len(vquiz.questions) = 1 =>
        /\ TheQuestion.type \notin KnownTypes /\ AnswerCount >= 1
              => verror.kind = "UnknownQuestionType"
        /\ TheQuestion.type \in KnownTypes => verror.kind # "UnknownQuestionType"

UnknownTypeWitness ==
    /\ FailedWith("UnknownQuestionType") /\ TheQuestion.type \notin KnownTypes
    /\ AnswerCount = 2 /\ Cardinality(MarkedCorrect) = 1


\* The rules as the claims list them, for a question of any quiz.
NoAnswers(q) == ~q.hasAnswers \/ q.answers = << >>
Marked(q) == Cardinality({i \in DOMAIN q.answers : q.answers[i].correct})

CountRuleViolated(q) ==
    CASE q.type \in {"UNIQUE", "MULTIPLE"} -> Len(q.answers) < 2
      [] q.type = "TEXT" -> Len(q.answers) # 1
      [] q.type = "BOOL" -> Len(q.answers) # 2

CorrectRuleViolated(q) ==
    CASE q.type = "MULTIPLE" -> Marked(q) < 1
      [] q.type \in {"UNIQUE", "TEXT", "BOOL"} -> Marked(q) # 1

FirstViolatedRule(q) ==
    IF NoAnswers(q) THEN "answers"
    ELSE IF q.type \notin KnownTypes THEN "type"
    ELSE IF CountRuleViolated(q) THEN "count"
    ELSE IF CorrectRuleViolated(q) THEN "correct"
    ELSE IF q.type = "BOOL" /\ ~ExactPair(q.answers[1].text, q.answers[2].text)
         THEN "text"
    ELSE "none"

KindOfFailure(q) ==
    CASE FirstViolatedRule(q) = "answers" -> "EmptyAnswers"
      [] FirstViolatedRule(q) = "type" -> "UnknownQuestionType"
      [] q.type = "UNIQUE" -> "InvalidUniqueQuestion"
      [] q.type = "MULTIPLE" -> "InvalidMultipleQuestion"
      [] q.type = "TEXT" -> "InvalidTextQuestion"
      [] q.type = "BOOL" -> "InvalidBoolQuestion"

InvalidPositions ==
    {k \in DOMAIN vquiz.questions : FirstViolatedRule(vquiz.questions[k]) # "none"}
LowestInvalid == CHOOSE k \in InvalidPositions : \A j \in InvalidPositions : k <= j

\* C17: a question whose answer collection is missing or empty fails, once
\* it is validated, with EmptyAnswers carrying its position, whatever its
\* type, known or unknown.
EmptyAnswersFirst ==
    \A i \in vvisited :
        NoAnswers(vquiz.questions[i + 1]) =>
            /\ FailedWith("EmptyAnswers")
            /\ verror.pos = i + 1

EmptyAnswersWitness ==
    /\ FailedWith("EmptyAnswers") /\ verror.pos = 2
    /\ vquiz.questions[2].type \notin KnownTypes
    /\ ~vquiz.questions[2].hasAnswers

\* C19: validateQuiz is fail-fast in question order.  No question after an
\* invalid one is ever validated, and for a quiz with invalid questions the
\* error is that of the lowest invalid position: it carries that 1-based
\* position and is the first violated rule of that question in rule order.
FailFast ==
    /\ \A i \in vvisited : \A j \in 1..i : FirstViolatedRule(vquiz.questions[j]) = "none"
    /\ Validated /\ InvalidPositions # {} =>
          /\ verror.pos = LowestInvalid
          /\ verror.rule = FirstViolatedRule(vquiz.questions[LowestInvalid])
          /\ verror.kind = KindOfFailure(vquiz.questions[LowestInvalid])
          /\ vvisited = 0..(LowestInvalid - 1)
    /\ Validated /\ vquiz.hasQuestions /\ vquiz.questions # << >> /\ InvalidPositions = {}
          => verror = Valid

FailFastWitness ==
    /\ Validated /\ Len(vquiz.questions) = 2
    /\ InvalidPositions = {1, 2}
    /\ verror.pos = 1 /\ verror.rule = "correct"
    /\ vvisited = {0}


\* ------------------------------------------- claims on getCompletionRate
\* 100 * completed / total rounded to the nearest integer, halves up.
RoundedPercentage(completed, total) == (200 * completed + total) \div (2 * total)

\* C20: getCompletionRate returns total = the number of rows of the
\* enrollment, completed = the number of them with status COMPLETED, and
\* completionRate = 100 * completed / total rounded to the nearest integer,
\* halves up; without rows it returns zeros; 1 COMPLETED row of 3 gives 33.
CompletionRateRounded ==
    rpc = "done" =>
        /\ rresult.total = CountOfEnrollment(renrollment)
        /\ rresult.completed = CountCompletedOfEnrollment(renrollment)
        /\ rresult.total = 0 => rresult.completed = 0 /\ rresult.completionRate = 0
        /\ rresult.total > 0 =>
              rresult.completionRate = RoundedPercentage(rresult.completed, rresult.total)
        /\ rresult.total = 3 /\ rresult.completed = 1 => rresult.completionRate = 33


\* ------------------------------------------------ claims on getAnalytics
\* The double nearest to n / d for naturals n and d > 0.
NearestDouble(n, d) == IF n = 0 THEN DoubleZero ELSE Divide(n, d)

\* C21: getAnalytics returns totalProgress = the number of all rows,
\* completed = the number of COMPLETED rows, and overallCompletionRate =
\* 100 * completed / totalProgress, not rounded to an integer: the number
\* nearest to that quotient; 0 without rows, exactly 100 when every row is
\* COMPLETED.
AnalyticsRateExact ==
    apc = "done" =>
        /\ aresult.totalProgress = Len(rows)
        /\ aresult.completed = CountCompletedRows
        /\ aresult.overallCompletionRate =
              IF aresult.totalProgress = 0 THEN DoubleZero
              ELSE NearestDouble(100 * aresult.completed, aresult.totalProgress)
        /\ aresult.totalProgress > 0 /\ aresult.completed = aresult.totalProgress
              => aresult.overallCompletionRate = NearestDouble(100, 1)


\* C22 (failed calls write nothing): a call that ends with EnrollmentNotFound,
\* LessonNotFound or QuizRequirementUnmet leaves the progress store exactly
\* as it was when the call began; a rejected COMPLETED request on an
\* IN_PROGRESS row leaves that row IN_PROGRESS.
FailedCallLeavesStore ==
    (Done(1) /\ result[1].kind \in
                  {"EnrollmentNotFound", "LessonNotFound", "QuizRequirementUnmet"})
        => rows = rows0[1]

\* C22 happens: a COMPLETED request was rejected for an unmet quiz while the
\* pair's row stood at IN_PROGRESS.
FailedCallLeavesStoreWitness ==
    /\ CompletedCall(1) /\ Rejected(1)
    /\ PairRows(rows, dto[1].enrollmentId, dto[1].lessonId) # {}
    /\ \A i \in PairRows(rows, dto[1].enrollmentId, dto[1].lessonId) :
          rows[i].status = "IN_PROGRESS"


\* The call of handler p began with its pair's row at COMPLETED: the pair had
\* been completed successfully before.
CompletedBefore(p) ==
    \E i \in PairRows(rows0[p], dto[p].enrollmentId, dto[p].lessonId) :
        rows0[p][i].status = COMPLETED

\* C23 (requirement re-derived, as claimed): a COMPLETED request for a pair
\* completed before is rejected with QuizRequirementUnmet exactly when some
\* quiz of the lesson now lacks a passing attempt by the user, and accepted
\* when all of them are passed.
RequirementRederived ==
    (CompletedCall(1) /\ CompletedBefore(1)) =>
        (Rejected(1) <=>
            \E q \in LessonQuizzes(dto[1].lessonId) : ~HasPassing(UserOf(1), q))


\* Handler p saves a COMPLETED row in this step.
SavesCompleted(p) ==
    /\ pc[p] = "save" /\ pc'[p] = "done"
    /\ dto[p].status = COMPLETED
    /\ result'[p].kind = "ok"

\* C24 (enforced at write time, as claimed): at the moment a handler saves a
\* row as COMPLETED, every quiz attached to the lesson has a passing attempt
\* by the enrollment's user, whatever other requests did between the quiz
\* check and the save.
EnforcedAtWriteTime ==
    [][\A p \in Procs :
          SavesCompleted(p) =>
              \A q \in LessonQuizzes(dto[p].lessonId) : HasPassing(UserOf(p), q)]_vars


\* C25 (last writer wins): on a pair whose row already exists, the row shows
\* the status requested by the call whose save executed last, whichever of
\* two overlapping calls started first or read the row first.
LastWriterWins ==
    lastOk["e1", "l1"] # "" =>
        /\ PairRows(rows, "e1", "l1") = {1}
        /\ rows[1].status = lastOk["e1", "l1"]

\* C25 happens: two overlapping calls asked for different statuses, both
\* succeeded, and the row shows the status of the one that saved last, which
\* is the one that had read the row before the other one saved.
LastWriterWinsWitness ==
    /\ Done(1) /\ Done(2) /\ Ok(1) /\ Ok(2)
    /\ dto[1].status # dto[2].status
    /\ rows0[1] = rows0[2]
    /\ rows[1].status = dto[2].status
    /\ lastOk["e1", "l1"] = dto[2].status


\* Handler p's successful save is the step being taken, and it changes the
\* store by at most one added row of its own pair and by the status of rows
\* of its own pair.
OwnPairWrite(p) ==
    /\ pc[p] = "save" /\ pc'[p] = "done" /\ result'[p].kind = "ok"
    /\ Len(rows') \in {Len(rows), Len(rows) + 1}
    /\ \A i \in 1..Len(rows) :
          /\ rows'[i].enrollment = rows[i].enrollment
          /\ rows'[i].lesson = rows[i].lesson
          /\ rows'[i].status # rows[i].status =>
                /\ rows[i].enrollment = dto[p].enrollmentId
                /\ rows[i].lesson = dto[p].lessonId
    /\ Len(rows') > Len(rows) =>
          /\ rows'[Len(rows')].enrollment = dto[p].enrollmentId
          /\ rows'[Len(rows')].lesson = dto[p].lessonId

\* C26 (frame): the progress store changes only in the successful save of an
\* updateProgress call, which deletes nothing, adds at most one row and
\* leaves other pairs' rows alone; getCourseProgress, getCompletionRate,
\* getAnalytics and the revocation of an attempt leave every row as it is.
RowsChangeOnlyBySave ==
    [][rows' # rows => \E p \in Procs : OwnPairWrite(p)]_vars

\* C26 happens: the row of (e1, l1) is COMPLETED although the lesson has a
\* quiz for which the user holds no attempt any more, a second pair has its
\* own row, and a read operation has answered.
RowsChangeOnlyBySaveWitness ==
    /\ Len(rows) = 2
    /\ \E i \in PairRows(rows, "e1", "l1") : rows[i].status = COMPLETED
    /\ LessonQuizzes("l1") # {} /\ attempts = << >>
    /\ Len(cpresult) = 2


\* C27 (rate within bounds, as claimed): every getCompletionRate response has
\* 0 <= completed <= total and 0 <= completionRate <= 100, also when
\* updateProgress calls run between its two counts.
RateWithinBounds ==
    rpc = "done" =>
        /\ 0 <= rresult.completed /\ rresult.completed <= rresult.total
        /\ 0 <= rresult.completionRate /\ rresult.completionRate <= 100


\* C28 (one review per pair, as claimed): createReview answers 'Review
\* already exists' for a pair created earlier and not deleted since,
\* findCourseMyReview returns the review of such a pair, and the store holds
\* at most one review per pair.
ReviewCreatedOnce ==
    /\ (rv.op = "createReview" /\ rv.live) => rv.kind = "ReviewAlreadyExists"
    /\ (rv.op = "findCourseMyReview" /\ rv.live) => rv.kind = "ok"
    /\ \A u \in UserIds, c \in CourseIds : Cardinality(ReviewFindById(c, u)) <= 1


\* C29 (names unique ignoring case, as claimed): whatever createCategory and
\* updateCategory calls have run, overlapping or not, no two categories have
\* names that are equal when letter case is ignored.
NamesUniqueIgnoringCase ==
    \A i, j \in 1..Len(cats) :
        i # j => ToLowerCase(cats[i].name) # ToLowerCase(cats[j].name)


\* The rows of store cs with the given id.
CategoryRows(cs, id) == {i \in 1..Len(cs) : cs[i].id = id}

\* C30 (guarded delete): deleteCategory removes the category, and nothing
\* else, only when it exists and has no course; with a course it answers
\* BadRequest, for an unknown id NotFound, and every failed call leaves the
\* store as it was.
DeleteOnlyWithoutCourses ==
    (catpc[1] = "done" /\ catdto[1].op = "delete") =>
        LET id == catdto[1].id
            before == cats0[1]
        IN /\ catresult[1].kind = "ok" =>
                /\ \E i \in CategoryRows(before, id) : before[i].courses = 0
                /\ cats = SelectSeq(before, LAMBDA r : r.id # id)
           /\ (\E i \in CategoryRows(before, id) : before[i].courses > 0) =>
                catresult[1].kind = "BadRequest"
           /\ (id # "" /\ CategoryRows(before, id) = {}) =>
                catresult[1].kind = "NotFound"
           /\ catresult[1].kind # "ok" => cats = before

\* C30 happens: a delete was refused with BadRequest for a category that has
\* a course, and the category is still in the store beside another one.
DeleteOnlyWithoutCoursesWitness ==
    /\ catpc[1] = "done" /\ catdto[1].op = "delete"
    /\ catresult[1].kind = "BadRequest"
    /\ \E i \in CategoryRows(cats, catdto[1].id) : cats[i].courses > 0
    /\ Len(cats) = 2

====
